---- MODULE Spec2Model ----
(***************************************************************************)
(* A model of cil.framework.sampler.Sampler and of the SPDHG algorithm     *)
(* (cil.optimisation.algorithms.SPDHG) that consumes its index stream.     *)
(*                                                                         *)
(* Python values are represented as follows:                               *)
(*   - a list / numpy array is a sequence (index k of Python is k+1 here); *)
(*   - an optional value is a sequence of length 0 (None) or 1 (<<v>>);    *)
(*   - a call's outcome is a record [exc, ret, self]: the exception it     *)
(*     raised ("None" if it returned), the value returned (an optional),   *)
(*     and the object's state when the call ended.                         *)
(***************************************************************************)
EXTENDS Integers, Sequences, FiniteSets, TLC

VARIABLES
    call,     \* the constructor call that built the object under study
    sampler,  \* the Sampler object (for SPDHG: the object held in _sampler)
    op,       \* the latest call made on the object
    arg,      \* its argument (num_samples of get_samples; sigma and tau)
    exc,      \* the exception it raised, "None" if it returned
    ret,      \* the value it returned, as an optional (for SPDHG's
              \* constructor: whether it emitted a deprecation warning)
    draws,    \* the values next(sampler) has returned so far
    alg,      \* the algorithm object: SPDHG, ISTA or FISTA
    upd,      \* the local values of the latest update()
    updates   \* the number of update() calls that returned (ISTA, FISTA)

vars == <<call, sampler, op, arg, exc, ret, draws, alg, upd, updates>>

-----------------------------------------------------------------------------
(* Bounds of the model *)

\* largest num_subsets handed to sequential / staggered / random factories
MaxN == 4
\* largest num_subsets handed to hermanMeyer
MaxHM == 12
\* seeds are drawn from 0..MaxSeed
MaxSeed == 1
\* number of states of the abstract pseudo-random generator
GenModulus == 8
\* most next() calls that returned a value, per run
MaxCalls == 9
\* largest num_samples handed to get_samples
MaxSamples == 16
\* most SPDHG.update() calls per run
MaxIter == 3
\* most ISTA / FISTA update() calls per run
MaxUpdates == 2
\* most update_objective() calls per run
MaxObjectives == 1

-----------------------------------------------------------------------------
(* Python helpers *)

None == <<>>

Some(v) == <<v>>

Range(n) == [k \in 1..(IF n > 0 THEN n ELSE 0) |-> k - 1]

RECURSIVE prod(_)
prod(s) == IF s = <<>> THEN 1 ELSE Head(s) * prod(Tail(s))

\* list[i]: Python indexing, negative indices count from the end
PyGetItem(list, i) ==
    IF 0 <= i /\ i < Len(list) THEN [exc |-> "None", ret |-> Some(list[i + 1])]
    ELSE IF i < 0 /\ -Len(list) <= i
         THEN [exc |-> "None", ret |-> Some(list[Len(list) + i + 1])]
         ELSE [exc |-> "IndexError", ret |-> None]

\* list[i:]: the slice without its stride
RECURSIVE StridedSlice_contiguous(_, _, _)
StridedSlice_contiguous(list, i, step) ==
    IF i >= Len(list) THEN <<>>
    ELSE <<list[i + 1]>> \o StridedSlice_contiguous(list, i + 1, step)

\* list[i::step] for step > 0 and 0 <= i
RECURSIVE StridedSlice(_, _, _)
StridedSlice(list, i, step) ==
    IF i >= Len(list) THEN <<>>
    ELSE <<list[i + 1]>> \o StridedSlice(list, i + step, step)

-----------------------------------------------------------------------------
(* numpy.random.RandomState, abstracted to a generator with GenModulus     *)
(* states: seeding fixes the state, every draw advances it.                *)

RandomState(seed) == seed % GenModulus

Advance(g) == (5 * g + 3) % GenModulus

Swap(arr, i, j) == [arr EXCEPT ![i + 1] = arr[j + 1], ![j + 1] = arr[i + 1]]

\* the Fisher-Yates loop of RandomState.shuffle: for i = n-1 down to 1,
\* j is drawn in [0, i] and arr[i], arr[j] are exchanged
RECURSIVE Shuffle(_, _, _)
Shuffle(arr, i, g) ==
    IF i < 1 THEN [arr |-> arr, gen |-> g]
    ELSE LET g1 == Advance(g)
             j == g1 % (i + 1)
         IN  Shuffle(Swap(arr, i, j), i - 1, g1)

\* generator.permutation(x): a shuffled copy of x; x itself is untouched
permutation(g, x) == Shuffle(x, Len(x) - 1, g)

\* number of entries of the cumulative distribution that are <= u, where
\* u = g / GenModulus and the distribution is prob.w / prob.den
RECURSIVE SearchSorted(_, _, _, _)
SearchSorted(prob, g, k, cum) ==
    IF k > Len(prob.w) THEN 0
    ELSE LET c == cum + prob.w[k]
         IN  (IF c * GenModulus <= g * prob.den THEN 1 ELSE 0)
             + SearchSorted(prob, g, k + 1, c)

\* generator.choice(n, 1, p=prob): one draw from the categorical distribution
\* (prob sums to 1, so the index found is below n = Len(prob.w))
choice(g, n, prob) ==
    LET g1 == Advance(g)
        idx == SearchSorted(prob, g1, 1, 0)
    IN  [val |-> idx, gen |-> g1]

-----------------------------------------------------------------------------
(* Sampler.__init__ *)

NoSampler ==
    [type |-> "none", num_subsets |-> 0, seed |-> 0, generator |-> 0,
     order |-> None, initial_order |-> None, iterator |-> "none",
     prob |-> None, shuffle |-> FALSE, last_subset |-> 0]

\* order and prob are optionals: None or Some(list)
Sampler(num_subsets, sampling_type, shuffle, order, prob, seed) ==
    [type |-> sampling_type,
     num_subsets |-> num_subsets,
     seed |-> seed,
     generator |-> RandomState(seed),
     order |-> order,
     initial_order |-> order,
     iterator |-> IF prob # None THEN "_next_prob"
                  ELSE IF order # None THEN "_next_order" ELSE "none",
     prob |-> prob,
     shuffle |-> shuffle,
     last_subset |-> num_subsets - 1]

Returned(s) == [exc |-> "None", val |-> s]

Raised(e) == [exc |-> e, val |-> NoSampler]

-----------------------------------------------------------------------------
(* The named factories *)

sequential(num_subsets) ==
    LET order == Range(num_subsets)
    IN  Returned(Sampler(num_subsets, "sequential", FALSE, Some(order), None, 0))

customOrder(customlist) ==
    LET num_subsets == Len(customlist)
    IN  Returned(Sampler(num_subsets, "custom_order", FALSE, Some(customlist), None, 0))

\* Factorize with the loop test "i * i < n_variable"
RECURSIVE Factorize_strict(_, _, _)
Factorize_strict(n_variable, i, factors) ==
    IF i * i < n_variable
    THEN IF n_variable % i # 0
         THEN Factorize_strict(n_variable, i + 1, factors)
         ELSE Factorize_strict(n_variable \div i, i, Append(factors, i))
    ELSE IF n_variable > 1 THEN Append(factors, n_variable) ELSE factors

\* the factorisation loop of _herman_meyer_order
RECURSIVE Factorize(_, _, _)
Factorize(n_variable, i, factors) ==
    IF i * i <= n_variable
    THEN IF n_variable % i # 0
         THEN Factorize(n_variable, i + 1, factors)
         ELSE Factorize(n_variable \div i, i, Append(factors, i))
    ELSE IF n_variable > 1 THEN Append(factors, n_variable) ELSE factors

\* the loop "for element in range(n)" for one factor; st = [order, value, n_rep_value]
RECURSIVE HMElements(_, _, _, _, _, _)
HMElements(st, element, n, factors, factor_n, n_change_value) ==
    IF element >= n THEN st
    ELSE LET mapping == st.value
             rep1 == st.n_rep_value + 1
             bump == rep1 >= n_change_value
             value1 == IF bump THEN st.value + 1 ELSE st.value
             rep2 == IF bump THEN 0 ELSE rep1
             value2 == IF value1 = factors[factor_n + 1] THEN 0 ELSE value1
             after == SubSeq(factors, factor_n + 2, Len(factors))
             order1 == [st.order EXCEPT ![element + 1] = @ + prod(after) * mapping]
         IN  HMElements([order |-> order1, value |-> value2, n_rep_value |-> rep2],
                        element + 1, n, factors, factor_n, n_change_value)

\* the loop "for factor_n in range(n_factors)"; st = [order, value]
RECURSIVE HMFactors(_, _, _, _)
HMFactors(st, factor_n, n, factors) ==
    IF factor_n >= Len(factors) THEN st.order
    ELSE LET n_change_value == IF factor_n = 0 THEN 1
                               ELSE prod(SubSeq(factors, 1, factor_n))
             st1 == HMElements([order |-> st.order, value |-> st.value, n_rep_value |-> 0],
                               0, n, factors, factor_n, n_change_value)
         IN  HMFactors([order |-> st1.order, value |-> st1.value], factor_n + 1, n, factors)

herman_meyer_order(n) ==
    LET factors == Factorize(n, 2, <<>>)
        n_factors == Len(factors)
    IN  IF n_factors = 0 THEN [exc |-> "ValueError", ret |-> None]
        ELSE [exc |-> "None",
              ret |-> Some(HMFactors([order |-> [k \in 1..n |-> 0], value |-> 0], 0, n, factors))]

hermanMeyer(num_subsets) ==
    LET order == herman_meyer_order(num_subsets)
    IN  IF order.exc # "None" THEN Raised(order.exc)
        ELSE Returned(Sampler(num_subsets, "herman_meyer", FALSE, order.ret, None, 0))

\* order.extend(indices[i::offset]) for i in range(offset)
RECURSIVE StaggeredOrder(_, _, _)
StaggeredOrder(indices, i, offset) ==
    IF i >= offset THEN <<>>
    ELSE StridedSlice(indices, i, offset) \o StaggeredOrder(indices, i + 1, offset)

staggered(num_subsets, offset) ==
    IF offset >= num_subsets THEN Raised("ValueError")
    ELSE LET indices == Range(num_subsets)
             order == StaggeredOrder(indices, 0, offset)
         IN  Returned(Sampler(num_subsets, "staggered", FALSE, Some(order), None, 0))

\* prob is an optional; None stands for the default [1/num_subsets]*num_subsets
randomWithReplacement(num_subsets, prob, seed) ==
    IF prob = None /\ num_subsets = 0 THEN Raised("ZeroDivisionError")
    ELSE LET p == IF prob = None
                  THEN Some([w |-> [k \in 1..num_subsets |-> 1], den |-> num_subsets])
                  ELSE prob
         IN  Returned(Sampler(num_subsets, "random_with_replacement", FALSE, None, p, seed))

randomWithoutReplacement(num_subsets, seed, shuffle) ==
    LET order == Range(num_subsets)
    IN  Returned(Sampler(num_subsets, "random_without_replacement", shuffle,
                         Some(order), None, seed))

-----------------------------------------------------------------------------
(* Sampler.next and Sampler.get_samples *)

\* reshuffle with the cursor tested against the first position
reshuffle_at_first(self) ==
    IF self.shuffle = TRUE /\ self.last_subset = 0
    THEN LET p == permutation(self.generator, self.order[1])
         IN  [self EXCEPT !.order = Some(p.arr), !.generator = p.gen]
    ELSE self

\* the re-permutation at the head of _next_order
reshuffle(self) ==
    IF self.shuffle = TRUE /\ self.last_subset = self.num_subsets - 1
    THEN LET p == permutation(self.generator, self.order[1])
         IN  [self EXCEPT !.order = Some(p.arr), !.generator = p.gen]
    ELSE self

\* advance_cursor without the wrap to the first position
advance_cursor_nowrap(self) ==
    [self EXCEPT !.last_subset = self.last_subset + 1]

\* the cursor step of _next_order (num_subsets # 0)
advance_cursor(self) ==
    [self EXCEPT !.last_subset = (self.last_subset + 1) % self.num_subsets]

next_order(self) ==
    LET s1 == reshuffle(self)
    IN  IF s1.num_subsets = 0
        THEN [exc |-> "ZeroDivisionError", ret |-> None, self |-> s1]
        ELSE LET s2 == advance_cursor(s1)
                 item == PyGetItem(s2.order[1], s2.last_subset)
             IN  [exc |-> item.exc, ret |-> item.ret, self |-> s2]

next_prob(self) ==
    LET c == choice(self.generator, self.num_subsets, self.prob[1])
    IN  [exc |-> "None", ret |-> Some(c.val), self |-> [self EXCEPT !.generator = c.gen]]

next(self) ==
    IF self.iterator = "_next_order" THEN next_order(self) ELSE next_prob(self)

\* [self.next() for _ in range(num_samples)]: stops at the first exception
RECURSIVE draw_samples(_, _, _)
draw_samples(self, num_samples, output) ==
    IF num_samples <= 0 THEN [exc |-> "None", ret |-> Some(output), self |-> self]
    ELSE LET r == next(self)
         IN  IF r.exc # "None" THEN [exc |-> r.exc, ret |-> None, self |-> r.self]
             ELSE draw_samples(r.self, num_samples - 1, Append(output, r.ret[1]))

\* rewind that forgets to put the initial order back
rewind_keeps_order(self) ==
    [self EXCEPT !.last_subset = self.num_subsets - 1,
                 !.generator = RandomState(self.seed)]

\* lines 439-442: rewind to the state __init__ left
rewind(self) ==
    [self EXCEPT !.last_subset = self.num_subsets - 1,
                 !.order = self.initial_order,
                 !.generator = RandomState(self.seed)]

\* lines 444-446: put back what lines 437-440 saved
restore(self, saved) ==
    [self EXCEPT !.generator = saved.generator,
                 !.order = saved.order,
                 !.last_subset = saved.last_subset]

get_samples(self, num_samples) ==
    LET saved == [generator |-> self.generator, last_subset |-> self.last_subset,
                  order |-> self.order]
        run == draw_samples(rewind(self), num_samples, <<>>)
    IN  IF run.exc # "None" THEN run
        ELSE [exc |-> "None", ret |-> run.ret, self |-> restore(run.self, saved)]

-----------------------------------------------------------------------------
(* Numbers: Python floats are modelled as exact rationals <<num, den>>,   *)
(* den > 0, in lowest terms.                                               *)

Abs(a) == IF a < 0 THEN -a ELSE a

RECURSIVE GCD(_, _)
GCD(a, b) == IF b = 0 THEN a ELSE GCD(b, a % b)

Q(n, d) ==
    LET g == GCD(Abs(n), Abs(d))
        sgn == IF d < 0 THEN -1 ELSE 1
    IN  <<(sgn * n) \div g, (sgn * d) \div g>>

Num(n) == <<n, 1>>

\* isinstance(v, Number): every step size of the model is a scalar
IsNumber(v) == DOMAIN v = 1..2

RAdd(a, b) ==
    LET g == GCD(a[2], b[2])
    IN  Q(a[1] * (b[2] \div g) + b[1] * (a[2] \div g), (a[2] \div g) * b[2])

RNeg(a) == <<-a[1], a[2]>>

RSub(a, b) == RAdd(a, RNeg(b))

RMul(a, b) == Q(a[1] * b[1], a[2] * b[2])

\* b # 0
RDiv(a, b) == Q(a[1] * b[2], a[2] * b[1])

RLt(a, b) == a[1] * b[2] < b[1] * a[2]

RLe(a, b) == a[1] * b[2] <= b[1] * a[2]

RMin(a, b) == IF RLe(a, b) THEN a ELSE b

RMax(a, b) == IF RLe(a, b) THEN b ELSE a

-----------------------------------------------------------------------------
(* The collaborators SPDHG consumes, over a one-dimensional domain:        *)
(* a container is one number, a linear operator is its multiplier.         *)

\* sapyb that leaves self unscaled: self + b*y
sapyb_unscaled(self, a, y, b) == RAdd(self, RMul(b, y))

\* sapyb with the coefficients exchanged: b*self + a*y
sapyb_swapped(self, a, y, b) == RAdd(RMul(b, self), RMul(a, y))

\* container.sapyb(a, y, b): a*self + b*y
sapyb(self, a, y, b) == RAdd(RMul(a, self), RMul(b, y))

direct(K, x) == RMul(Num(K), x)

\* an adjoint that does not scale
adjoint_identity(K, y) == y

adjoint(K, y) == RMul(Num(K), y)

\* g.proximal(x, tau): ZeroFunction, or the indicator of [0, +inf)
proximal(g, x, tau) ==
    IF g = "IndicatorBoxLower0" THEN RMax(x, Num(0)) ELSE x

\* f.proximal_conjugate(y, sigma) for f = |. - b|: the projection of
\* y - sigma*b onto [-1, 1]
proximal_conjugate(f, y, sigma) ==
    RMax(Num(-1), RMin(Num(1), RSub(y, RMul(sigma, Num(f.b)))))

\* numpy.inf, the value of an indicator function outside its set
Inf == <<1, 0>>

\* g(x): ZeroFunction, or the indicator of [0, +inf)
g_value(g, x) ==
    IF g = "IndicatorBoxLower0" /\ RLt(x, Num(0)) THEN Inf ELSE Num(0)

\* a + b for values that may be numpy.inf
add_values(a, b) == IF a = Inf \/ b = Inf THEN Inf ELSE RAdd(a, b)

\* f(y) for f = |. - b|
f_value(f, y) == LET v == RSub(y, Num(f.b)) IN IF RLt(v, Num(0)) THEN RNeg(v) ELSE v

\* f.convex_conjugate(y) for f = |. - b|: b*y on [-1, 1], numpy.inf outside
f_convex_conjugate(f, y) ==
    IF RLe(Num(-1), y) /\ RLe(y, Num(1)) THEN RMul(Num(f.b), y) ELSE Inf

\* g.convex_conjugate(v): the indicator of {0} for ZeroFunction, of
\* (-inf, 0] for the indicator of [0, +inf)
g_convex_conjugate(g, v) ==
    IF g = "IndicatorBoxLower0"
    THEN IF RLe(v, Num(0)) THEN Num(0) ELSE Inf
    ELSE IF v = Num(0) THEN Num(0) ELSE Inf

\* indexing that always lands on the first position
PyPos_first(n, i) == 1

\* the position list[i] reads or writes, for a list of length n
PyPos(n, i) == IF i < 0 THEN n + i + 1 ELSE i + 1

\* operator[i] of a BlockOperator: indexing of the tuple of its operators
BlockOperator_getitem(operator, i) == PyGetItem(operator, i)

-----------------------------------------------------------------------------
(* SPDHG *)

NoAlg == [configured |-> FALSE]

NoStep == [i |-> 0, block |-> 0, x |-> Num(0), y_in |-> Num(0), y_k |-> Num(0),
           d |-> Num(0)]

Min(a, b) == IF a <= b THEN a ELSE b

\* the filter of line 387 with 1/2 for 1e-8
ExceedsTiny_coarse(v) == v[1] > 0 /\ v[2] < 2 * v[1]

\* value > 1e-8, for a rational value
ExceedsTiny(v) == v[1] > 0 /\ (v[2] \div v[1]) < 100000000

\* min(values), values not empty
RECURSIVE RMinOf(_)
RMinOf(values) ==
    IF Len(values) = 1 THEN values[1] ELSE RMin(values[1], RMinOf(Tail(values)))

\* all(isinstance(x, Number) and x > 0 for x in sigma)
all_positive(sigma) == \A k \in 1..Len(sigma) : IsNumber(sigma[k]) /\ RLt(Num(0), sigma[k])

\* isinstance(tau, Number) and tau > 0
tau_positive(tau) == IsNumber(tau) /\ RLt(Num(0), tau)

\* resolve_sigma with the probability left out of line 382
resolve_sigma_without_prob(self, sigma, tau, rho, gamma) ==
    IF sigma # None
    THEN IF Len(sigma[1]) = self.ndual_subsets
         THEN IF all_positive(sigma[1]) THEN [exc |-> "None", sigma |-> sigma[1]]
              ELSE [exc |-> "ValueError", sigma |-> self.sigma]
         ELSE [exc |-> "ValueError", sigma |-> self.sigma]
    ELSE IF tau = None
    THEN [exc |-> "None",
          sigma |-> [k \in 1..Len(self.norms) |-> RDiv(RMul(gamma, rho), self.norms[k])]]
    ELSE LET m == Min(Len(self.norms), Len(self.prob_weights))
             den == [k \in 1..m |-> RMul(tau[1], RMul(self.norms[k], self.norms[k]))]
         IN  IF \E k \in 1..m : den[k][1] = 0
             THEN [exc |-> "ZeroDivisionError", sigma |-> self.sigma]
             ELSE [exc |-> "None",
                   sigma |-> [k \in 1..m |-> RDiv(RMul(gamma, rho), den[k])]]

\* the dual step sizes set_step_sizes stores first (lines 365-382): the
\* outcome [exc, sigma]
resolve_sigma(self, sigma, tau, rho, gamma) ==
    IF sigma # None
    THEN IF Len(sigma[1]) = self.ndual_subsets
         THEN IF all_positive(sigma[1]) THEN [exc |-> "None", sigma |-> sigma[1]]
              ELSE [exc |-> "ValueError", sigma |-> self.sigma]
         ELSE [exc |-> "ValueError", sigma |-> self.sigma]
    ELSE IF tau = None
    THEN [exc |-> "None",
          sigma |-> [k \in 1..Len(self.norms) |-> RDiv(RMul(gamma, rho), self.norms[k])]]
    ELSE LET m == Min(Len(self.norms), Len(self.prob_weights))
             den == [k \in 1..m |-> RMul(tau[1], RMul(self.norms[k], self.norms[k]))]
         IN  IF \E k \in 1..m : den[k][1] = 0
             THEN [exc |-> "ZeroDivisionError", sigma |-> self.sigma]
             ELSE [exc |-> "None",
                   sigma |-> [k \in 1..m |->
                       RDiv(RMul(RMul(gamma, rho), self.prob_weights[k]), den[k])]]

\* the primal step size of lines 385-388, from the sigma just stored: the
\* outcome [exc, tau]
derive_tau(self, sigma, rho, gamma) ==
    LET m == Min(Min(Len(self.prob_weights), Len(self.norms)), Len(sigma))
        den == [k \in 1..m |-> RMul(sigma[k], RMul(self.norms[k], self.norms[k]))]
    IN  IF \E k \in 1..m : den[k][1] = 0
        THEN [exc |-> "ZeroDivisionError", tau |-> self.tau]
        ELSE LET values == [k \in 1..m |-> RDiv(self.prob_weights[k], den[k])]
                 kept == SelectSeq(values, ExceedsTiny)
             IN  IF kept = <<>> THEN [exc |-> "ValueError", tau |-> self.tau]
                 ELSE [exc |-> "None", tau |-> RMul(RMinOf(kept), RDiv(rho, gamma))]

\* set_step_sizes(sigma, tau), sigma and tau optionals: the outcome [exc, self]
set_step_sizes(self, sigma, tau) ==
    LET gamma == Num(1)
        rho == Q(99, 100)
        rs == resolve_sigma(self, sigma, tau, rho, gamma)
        self1 == [self EXCEPT !.sigma = rs.sigma]
    IN  IF rs.exc # "None" THEN [exc |-> rs.exc, self |-> self]
        ELSE IF tau = None
        THEN LET dt == derive_tau(self1, rs.sigma, rho, gamma)
             IN  IF dt.exc # "None" THEN [exc |-> dt.exc, self |-> self1]
                 ELSE [exc |-> "None", self |-> [self1 EXCEPT !.tau = dt.tau]]
        ELSE IF tau_positive(tau[1])
             THEN [exc |-> "None", self |-> [self1 EXCEPT !.tau = tau[1]]]
             ELSE [exc |-> "ValueError", self |-> self1]

\* warnings.warn(message): the module never imports warnings (lines 20-26)
warn(message) == "NameError"

\* BlockOperator.set_norms(norms)
set_norms(self, norms) == [self EXCEPT !.operator_norms = Some(norms)]

\* BlockOperator.get_norms_as_list(): the norms installed, else those of
\* the operators
get_norms_as_list(self) ==
    IF self.operator_norms # None THEN self.operator_norms[1]
    ELSE [k \in 1..Len(self.operator) |-> Num(Abs(self.operator[k]))]

\* _deprecated_kwargs with norms and prob popped from the keyword
\* arguments, both optionals: the outcome [exc, self, warned]
deprecated_kwargs(self, norms, prob) ==
    LET w1 == warn("prob")
        afterProb ==
            IF prob # None
            THEN IF self.prob_weights = None
                 THEN IF w1 # "None" THEN [exc |-> w1, self |-> self, warned |-> FALSE]
                      ELSE [exc |-> "None", self |-> [self EXCEPT !.prob_weights = prob],
                            warned |-> TRUE]
                 ELSE [exc |-> "ValueError", self |-> self, warned |-> FALSE]
            ELSE [exc |-> "None", self |-> self, warned |-> FALSE]
        w2 == warn("norms")
    IN  IF afterProb.exc # "None" THEN afterProb
        ELSE IF norms # None
        THEN LET self2 == set_norms(afterProb.self, norms[1])
             IN  IF w2 # "None" THEN [exc |-> w2, self |-> self2, warned |-> afterProb.warned]
                 ELSE [exc |-> "None", self |-> self2, warned |-> TRUE]
        ELSE afterProb

\* Sampler.random_with_replacement(num_subsets, prob=prob_weights), line 215:
\* the class Sampler has the factory randomWithReplacement and no
\* attribute of this name
random_with_replacement(num_subsets, prob) == Raised("AttributeError")

\* SPDHG.__init__ and set_up.  sigma, tau, initial, prob_weights, norms and
\* prob are optionals; smp is the sampler object handed over (NoSampler for
\* sampler=None) and sampler_prob_weights its prob_weights attribute, an
\* optional.  The outcome is [exc, self, sampler, warned].
set_up(f, g, operator, sigma, tau, initial, smp, sampler_prob_weights, prob_weights, norms, prob) ==
    LET n == Len(operator)
        self0 == [configured |-> FALSE,
                  f |-> f, g |-> g, operator |-> operator, operator_norms |-> None,
                  ndual_subsets |-> n,
                  prob_weights |-> sampler_prob_weights,
                  norms |-> <<>>, sigma |-> <<>>, tau |-> None,
                  x |-> Num(0), x_tmp |-> Num(0), y_old |-> <<>>,
                  z |-> Num(0), zbar |-> Num(0), theta |-> Num(1), loss |-> <<>>]
        self1 == IF prob_weights # None /\ sampler_prob_weights = None
                 THEN [self0 EXCEPT !.prob_weights = prob_weights] ELSE self0
        dk == deprecated_kwargs(self1, norms, prob)
        self2 == [dk.self EXCEPT
                     !.prob_weights = IF dk.self.prob_weights = None
                                      THEN [k \in 1..n |-> Q(1, n)]
                                      ELSE dk.self.prob_weights[1]]
        made == random_with_replacement(n, self2.prob_weights)
        smp1 == IF smp = NoSampler THEN made.val ELSE smp
        self3 == [self2 EXCEPT !.norms = get_norms_as_list(self2)]
        st == set_step_sizes(self3, sigma, tau)
    IN  IF prob_weights # None /\ sampler_prob_weights # None
        THEN [exc |-> "ValueError", self |-> self0, sampler |-> smp, warned |-> FALSE]
        ELSE IF dk.exc # "None"
        THEN [exc |-> dk.exc, self |-> dk.self, sampler |-> smp, warned |-> dk.warned]
        ELSE IF smp = NoSampler /\ made.exc # "None"
        THEN [exc |-> made.exc, self |-> self2, sampler |-> smp, warned |-> dk.warned]
        ELSE IF st.exc # "None"
        THEN [exc |-> st.exc, self |-> st.self, sampler |-> smp1, warned |-> dk.warned]
        ELSE [exc |-> "None",
              self |-> [st.self EXCEPT
                  !.x = IF initial = None THEN Num(0) ELSE initial[1],
                  !.y_old = [k \in 1..n |-> Num(0)],
                  !.configured = TRUE],
              sampler |-> smp1, warned |-> dk.warned]

\* the loop of check_convergence from block i on; every path through its
\* body returns
RECURSIVE check_convergence_from(_, _)
check_convergence_from(self, i) ==
    IF i >= self.ndual_subsets THEN None
    ELSE IF IsNumber(self.tau) /\ IsNumber(self.sigma[i + 1])
         THEN IF RLt(self.prob_weights[i + 1],
                     RMul(RMul(self.sigma[i + 1], self.tau),
                          RMul(self.norms[i + 1], self.norms[i + 1])))
              THEN Some(FALSE)
              ELSE Some(TRUE)
         ELSE Some(FALSE)

check_convergence(self) == check_convergence_from(self, 0)

\* _save_previous_iteration that stores nothing
save_previous_iteration_skipped(y_old, index, y_current) == y_old

\* _save_previous_iteration that always stores into the first block
save_previous_iteration_first(y_old, index, y_current) == [y_old EXCEPT ![1] = y_current]

\* _save_previous_iteration(index, y_current): y_old[index].fill(y_current)
save_previous_iteration(y_old, index, y_current) ==
    [y_old EXCEPT ![PyPos(Len(y_old), index)] = y_current]

\* update(): the outcome [exc, self, sampler, yield, upd], where yield is
\* what next(self._sampler) returned, if it was reached and returned
update(self, smp) ==
    LET x_tmp1 == sapyb(self.x, Num(1), self.zbar, RNeg(self.tau))
        x1 == proximal(self.g, x_tmp1, self.tau)
        self1 == [self EXCEPT !.x_tmp = x_tmp1, !.x = x1]
        drawn == next(smp)
    IN  IF drawn.exc # "None"
        THEN [exc |-> drawn.exc, self |-> self1, sampler |-> drawn.self,
              yield |-> None, upd |-> NoStep]
        ELSE
        LET i == drawn.ret[1]
            K == BlockOperator_getitem(self.operator, i)
        IN  IF K.exc # "None"
            THEN [exc |-> "IndexError", self |-> self1, sampler |-> drawn.self,
                  yield |-> drawn.ret,
                  upd |-> [NoStep EXCEPT !.i = i, !.x = x1]]
            ELSE
            LET pos == PyPos(self.ndual_subsets, i)
                y_k0 == direct(K.ret[1], x1)
                y_k1 == sapyb(y_k0, self.sigma[pos], self.y_old[pos], Num(1))
                y_k2 == proximal_conjugate(self.f[pos], y_k1, self.sigma[pos])
                y_old1 == [self.y_old EXCEPT ![pos] = RSub(y_k2, self.y_old[pos])]
                x_tmp2 == adjoint(K.ret[1], y_old1[pos])
                z1 == RAdd(self.z, x_tmp2)
                zbar1 == sapyb(z1, Num(1), x_tmp2, RDiv(self.theta, self.prob_weights[pos]))
                y_old2 == save_previous_iteration(y_old1, i, y_k2)
            IN  [exc |-> "None",
                 self |-> [self1 EXCEPT !.x_tmp = x_tmp2, !.z = z1, !.zbar = zbar1,
                                        !.y_old = y_old2],
                 sampler |-> drawn.self,
                 yield |-> drawn.ret,
                 upd |-> [i |-> i, block |-> pos - 1, x |-> x1, y_in |-> y_k1,
                           y_k |-> y_k2, d |-> x_tmp2]]

\* sum of terms(k) over the blocks k..n, for values that may be numpy.inf
RECURSIVE sum_values(_, _, _)
sum_values(terms, k, n) ==
    IF k > n THEN Num(0) ELSE add_values(terms[k], sum_values(terms, k + 1, n))

\* SPDHG.update_objective: loss.append([p1, d1, p1 - d1])
SPDHG_update_objective(self) ==
    LET n == self.ndual_subsets
        p1 == add_values(sum_values([k \in 1..n |->
                                        f_value(self.f[k], direct(self.operator[k], self.x))],
                                    1, n),
                         g_value(self.g, self.x))
        tmp == RNeg(sum_values([k \in 1..n |-> adjoint(self.operator[k], self.y_old[k])],
                               1, n))
        conj == add_values(sum_values([k \in 1..n |->
                                          f_convex_conjugate(self.f[k], self.y_old[k])],
                                      1, n),
                           g_convex_conjugate(self.g, tmp))
        d1 == RNeg(conj)
        gap == IF p1 = Inf \/ conj = Inf THEN Inf ELSE RSub(p1, d1)
    IN  [self EXCEPT !.loss = Append(@, <<p1, d1, gap>>)]

-----------------------------------------------------------------------------
(* The collaborators ISTA and FISTA consume.  A function is a record        *)
(* [name, a, b]: "ZeroFunction"; "LeastSquares", the smooth function        *)
(* (a/2)*(x - b)^2 with Lipschitz constant a; "L1Norm", which has no        *)
(* Lipschitz constant and no gradient.                                      *)

ZeroFunction == [name |-> "ZeroFunction", a |-> 0, b |-> 0]

LeastSquares(a, b) == [name |-> "LeastSquares", a |-> a, b |-> b]

L1Norm == [name |-> "L1Norm", a |-> 0, b |-> 0]

\* f.L: a number, or None when f is not known to be smooth
Lipschitz(f) ==
    CASE f.name = "ZeroFunction" -> Some(Num(1))
      [] f.name = "LeastSquares" -> Some(Num(f.a))
      [] OTHER -> None

\* f.gradient(x)
gradient(f, x) ==
    CASE f.name = "ZeroFunction" -> [exc |-> "None", ret |-> Some(Num(0))]
      [] f.name = "LeastSquares" ->
             [exc |-> "None", ret |-> Some(RMul(Num(f.a), RSub(x, Num(f.b))))]
      [] OTHER -> [exc |-> "NotImplementedError", ret |-> None]

\* |x|
RAbs(x) == IF RLt(x, Num(0)) THEN RNeg(x) ELSE x

\* f(x), exact, as the factors of a product: (a/2) * |x - b| * |x - b| for
\* LeastSquares (the square of an iterate does not fit the integers of the
\* model after three steps of the default step size)
value(f, x) ==
    CASE f.name = "LeastSquares" ->
             <<Q(f.a, 2), RAbs(RSub(x, Num(f.b))), RAbs(RSub(x, Num(f.b)))>>
      [] f.name = "L1Norm" -> <<RAbs(x)>>
      [] OTHER -> <<Num(0)>>

\* a product of factors plus the value of g, which is 0 or inf
add_to_product(fv, gv) == IF gv = Inf THEN <<Inf>> ELSE fv

\* a step-size rule [kind, step_size, queries]: ConstantStepSize always
\* answers step_size; a rule of the caller ("custom") answers
\* step_size / (queries + 1) and counts the query
ConstantStepSize(step_size) ==
    [kind |-> "ConstantStepSize", step_size |-> step_size, queries |-> 0]

CustomStepSize(step_size) ==
    [kind |-> "custom", step_size |-> step_size, queries |-> 0]

get_step_size(rule) ==
    IF rule.kind = "ConstantStepSize"
    THEN [ret |-> rule.step_size, rule |-> rule]
    ELSE [ret |-> RDiv(rule.step_size, Num(rule.queries + 1)),
          rule |-> [rule EXCEPT !.queries = @ + 1]]

\* preconditioner.apply(algorithm, gradient): a diagonal scaling
apply(preconditioner, grad) == RMul(Num(preconditioner), grad)

\* numpy.sqrt to SqrtScale-ths: the largest r/SqrtScale whose square is <= q
SqrtScale == 8

RECURSIVE ISqrt(_, _)
ISqrt(v, r) == IF (r + 1) * (r + 1) > v THEN r ELSE ISqrt(v, r + 1)

sqrt(q) == Q(ISqrt((q[1] * SqrtScale * SqrtScale) \div q[2], 0), SqrtScale)

-----------------------------------------------------------------------------
(* ISTA and FISTA.  Containers live in a heap (a sequence of values); the   *)
(* object's attributes x, x_old, y, gradient_update and initial hold        *)
(* positions of the heap, so that two attributes can name one container.    *)
(* Position 1 is the caller's initial.                                      *)

\* a copy() that hands back the container itself
copy_shared(heap, ref) == heap

\* container.copy(): a new container with the same value
copy(heap, ref) == Append(heap, heap[ref])

\* the default the docstrings of both classes announce: 1/L
calculate_default_step_size_docstring(cls, f, step_size) ==
    IF step_size = None
    THEN IF f.name = "ZeroFunction" THEN [exc |-> "None", ret |-> Some(Num(1))]
         ELSE IF Lipschitz(f) # None
              THEN [exc |-> "None", ret |-> Some(RDiv(Num(1), Lipschitz(f)[1]))]
              ELSE [exc |-> "ValueError", ret |-> None]
    ELSE [exc |-> "None", ret |-> step_size]

\* ISTA._calculate_default_step_size / FISTA._calculate_default_step_size
calculate_default_step_size(cls, f, step_size) ==
    IF step_size = None
    THEN IF f.name = "ZeroFunction" THEN [exc |-> "None", ret |-> Some(Num(1))]
         ELSE IF Lipschitz(f) # None
              THEN [exc |-> "None",
                    ret |-> Some(IF cls = "ISTA"
                                 THEN RDiv(RMul(Q(99, 100), Num(2)), Lipschitz(f)[1])
                                 ELSE RDiv(Num(1), Lipschitz(f)[1]))]
              ELSE [exc |-> "ValueError", ret |-> None]
    ELSE [exc |-> "None", ret |-> step_size]

\* the object when the constructor enters set_up: Algorithm.__init__ has
\* run (configured False, empty loss) and, for FISTA, y and t are set
new_algorithm(cls, initial, step_size) ==
    LET heap0 == <<initial>>
    IN  [cls |-> cls, configured |-> FALSE, loss |-> <<>>,
         heap |-> IF cls = "FISTA" THEN copy(heap0, 1) ELSE heap0,
         y |-> IF cls = "FISTA" THEN Some(2) ELSE None,
         t |-> IF cls = "FISTA" THEN Some(Num(1)) ELSE None,
         t_old |-> None,
         step_size_arg |-> step_size,
         initial |-> 1, x_old |-> 1, x |-> 1, gradient_update |-> 1,
         f |-> ZeroFunction, g |-> "ZeroFunction",
         step_size_rule |-> None, preconditioner |-> None]

\* the test of line 165 left out
both_zero_unchecked(f, g) == FALSE

\* isinstance(f, ZeroFunction) and isinstance(g, ZeroFunction)
both_zero(f, g) == f.name = "ZeroFunction" /\ g = "ZeroFunction"

\* ISTA.set_up on the object self; initial is a heap position, f, g,
\* step_size, step_size_rule and preconditioner are optionals
ISTA_set_up(self, initial, f, g, step_size, step_size_rule, preconditioner) ==
    LET h1 == copy(self.heap, initial)
        h2 == copy(h1, initial)
        h3 == copy(h2, initial)
        f1 == IF f = None THEN ZeroFunction ELSE f[1]
        g1 == IF g = None THEN "ZeroFunction" ELSE g[1]
        self1 == [self EXCEPT !.initial = initial, !.heap = h3,
                              !.x_old = Len(h1), !.x = Len(h2),
                              !.gradient_update = Len(h3),
                              !.f = f1, !.g = g1]
        default == calculate_default_step_size(self.cls, f1, step_size)
    IN  IF both_zero(f1, g1)
        THEN [exc |-> "ValueError", self |-> self1]
        ELSE IF step_size_rule = None /\ default.exc # "None"
        THEN [exc |-> default.exc, self |-> self1]
        ELSE IF step_size_rule # None /\ step_size # None
        THEN [exc |-> "TypeError", self |-> self1]
        ELSE [exc |-> "None",
              self |-> [self1 EXCEPT
                  !.step_size_rule = IF step_size_rule = None
                                     THEN Some(ConstantStepSize(default.ret[1]))
                                     ELSE step_size_rule,
                  !.preconditioner = preconditioner,
                  !.configured = TRUE]]

\* ISTA(...) / FISTA(...): the constructor
ISTA_init(cls, initial, f, g, step_size, step_size_rule, preconditioner) ==
    ISTA_set_up(new_algorithm(cls, initial, step_size), 1, f, g,
                step_size, step_size_rule, preconditioner)

\* the condition with a strict comparison
provable_convergence_condition_strict(self) ==
    IF self.preconditioner # None
    THEN [exc |-> "NotImplementedError", ret |-> None]
    ELSE IF self.step_size_rule[1].kind = "ConstantStepSize"
    THEN IF Lipschitz(self.f) = None THEN [exc |-> "TypeError", ret |-> None]
         ELSE LET L == Lipschitz(self.f)[1]
                  bound == IF self.cls = "ISTA"
                           THEN RDiv(RMul(Q(99, 100), Num(2)), L)
                           ELSE RDiv(Num(1), L)
              IN  [exc |-> "None",
                   ret |-> Some(RLt(self.step_size_rule[1].step_size, bound))]
    ELSE [exc |-> "TypeError", ret |-> None]

\* the condition with the step-size rule examined before the preconditioner
provable_convergence_condition_rule_first(self) ==
    IF self.step_size_rule[1].kind # "ConstantStepSize"
    THEN [exc |-> "TypeError", ret |-> None]
    ELSE IF Lipschitz(self.f) = None THEN [exc |-> "TypeError", ret |-> None]
    ELSE IF self.preconditioner # None
    THEN [exc |-> "NotImplementedError", ret |-> None]
    ELSE LET L == Lipschitz(self.f)[1]
             bound == IF self.cls = "ISTA"
                      THEN RDiv(RMul(Q(99, 100), Num(2)), L)
                      ELSE RDiv(Num(1), L)
         IN  [exc |-> "None",
              ret |-> Some(RLe(self.step_size_rule[1].step_size, bound))]

\* ISTA._provable_convergence_condition / FISTA._provable_convergence_condition
provable_convergence_condition(self) ==
    IF self.preconditioner # None
    THEN [exc |-> "NotImplementedError", ret |-> None]
    ELSE IF self.step_size_rule[1].kind = "ConstantStepSize"
    THEN IF Lipschitz(self.f) = None THEN [exc |-> "TypeError", ret |-> None]
         ELSE LET L == Lipschitz(self.f)[1]
                  bound == IF self.cls = "ISTA"
                           THEN RDiv(RMul(Q(99, 100), Num(2)), L)
                           ELSE RDiv(Num(1), L)
              IN  [exc |-> "None",
                   ret |-> Some(RLe(self.step_size_rule[1].step_size, bound))]
    ELSE [exc |-> "TypeError", ret |-> None]

NoISTAStep == [step_size |-> Num(0), gradient |-> Num(0), point |-> Num(0)]

\* gradient into gradient_update, then the preconditioner on it, then the
\* step size: the part ISTA.update and FISTA.update share; at is the
\* position the gradient is taken at
gradient_step(self, at) ==
    LET grad == gradient(self.f, self.heap[at])
    IN  IF grad.exc # "None"
        THEN [exc |-> grad.exc, self |-> self, step_size |-> Num(0)]
        ELSE
        LET h1 == [self.heap EXCEPT ![self.gradient_update] = grad.ret[1]]
            h2 == IF self.preconditioner = None THEN h1
                  ELSE [h1 EXCEPT ![self.gradient_update] =
                            apply(self.preconditioner[1], h1[self.gradient_update])]
            q == get_step_size(self.step_size_rule[1])
        IN  [exc |-> "None",
             self |-> [self EXCEPT !.heap = h2, !.step_size_rule = Some(q.rule)],
             step_size |-> q.ret]

\* container.sapyb(1., gradient_update, -step_size, out=container) for the
\* container at position at, then g.proximal(container, step_size, out=x):
\* the object afterwards and the locals of the step
proximal_step(s, at, step_size) ==
    LET h3 == [s.heap EXCEPT ![at] =
                   sapyb(s.heap[at], Num(1), s.heap[s.gradient_update], RNeg(step_size))]
    IN  [self |-> [s EXCEPT !.heap = [h3 EXCEPT ![s.x] = proximal(s.g, h3[at], step_size)]],
         upd |-> [step_size |-> step_size, gradient |-> s.heap[s.gradient_update],
                  point |-> h3[at]]]

\* ISTA.update: the outcome [exc, self, upd]
ISTA_update(self) ==
    LET gs == gradient_step(self, self.x_old)
    IN  IF gs.exc # "None" THEN [exc |-> gs.exc, self |-> gs.self, upd |-> NoISTAStep]
        ELSE LET p == proximal_step(gs.self, self.x_old, gs.step_size)
             IN  [exc |-> "None", self |-> p.self, upd |-> p.upd]

\* 0.5*(1 + numpy.sqrt(1 + 4*(t_old**2)))
next_t(t_old) ==
    RMul(Q(1, 2), RAdd(Num(1), sqrt(RAdd(Num(1), RMul(Num(4), RMul(t_old, t_old))))))

\* x.subtract(x_old, out=y), then y.sapyb((t_old-1)/t, x, 1.0, out=y)
momentum(s, t_old, t) ==
    LET y == s.y[1]
        h5 == [s.heap EXCEPT ![y] = RSub(s.heap[s.x], s.heap[s.x_old])]
    IN  [s EXCEPT !.t = Some(t),
                  !.heap = [h5 EXCEPT ![y] =
                                sapyb(h5[y], RDiv(RSub(t_old, Num(1)), t), h5[s.x], Num(1))]]

\* FISTA.update: the outcome [exc, self, upd]
FISTA_update(self) ==
    LET gs == gradient_step([self EXCEPT !.t_old = self.t], self.y[1])
    IN  IF gs.exc # "None" THEN [exc |-> gs.exc, self |-> gs.self, upd |-> NoISTAStep]
        ELSE LET p == proximal_step(gs.self, self.y[1], gs.step_size)
             IN  [exc |-> "None",
                  self |-> momentum(p.self, self.t[1], next_t(self.t[1])),
                  upd |-> p.upd]

\* update() of the object's class
algorithm_update(self) ==
    IF self.cls = "FISTA" THEN FISTA_update(self) ELSE ISTA_update(self)

\* _update_previous_solution that exchanges nothing
update_previous_solution_kept(self) == self

\* ISTA._update_previous_solution: x and x_old exchange their containers
update_previous_solution(self) ==
    [self EXCEPT !.x_old = self.x, !.x = self.x_old]

\* update_objective that evaluates at the container x names
update_objective_at_x(self) ==
    [self EXCEPT !.loss = Append(@, add_to_product(value(self.f, self.heap[self.x]),
                                                   g_value(self.g, self.heap[self.x])))]

\* ISTA.update_objective: loss.append(f(x_old) + g(x_old))
update_objective(self) ==
    [self EXCEPT !.loss = Append(@, add_to_product(value(self.f, self.heap[self.x_old]),
                                                   g_value(self.g, self.heap[self.x_old])))]

\* ISTA.get_output: the value of the container x_old names
get_output(self) == self.heap[self.x_old]

\* one iteration of the driver: update(), then _update_previous_solution();
\* the outcome [exc, self, produced], produced being the value update() left in x
driver_iteration(self) ==
    LET u == algorithm_update(self)
    IN  IF u.exc # "None" THEN [exc |-> u.exc, self |-> u.self, produced |-> None]
        ELSE [exc |-> "None", self |-> update_previous_solution(u.self),
              produced |-> Some(u.self.heap[u.self.x])]

\* k iterations of the driver on the object self: the outcome
\* [exc, self, produced], produced listing what the updates left in x
RECURSIVE driver_run(_, _)
driver_run(self, k) ==
    IF k = 0 THEN [exc |-> "None", self |-> self, produced |-> <<>>]
    ELSE LET before == driver_run(self, k - 1)
         IN  IF before.exc # "None" THEN before
             ELSE LET it == driver_iteration(before.self)
                  IN  [exc |-> it.exc, self |-> it.self,
                       produced |-> IF it.exc = "None"
                                    THEN Append(before.produced, it.produced[1])
                                    ELSE before.produced]

-----------------------------------------------------------------------------
(* The constructor calls the model explores (num_subsets >= 1, except for  *)
(* hermanMeyer, whose raise is reached for 0 and 1)                        *)

Call(factory, n, offset, list, prob, seed, shuffle) ==
    [factory |-> factory, n |-> n, offset |-> offset, list |-> list,
     prob |-> prob, seed |-> seed, shuffle |-> shuffle]

CustomLists ==
    {<<1, 4, 6, 7, 8, 9, 11>>, <<0, 1, 2>>, <<2, 0, 1>>, <<0, 0, 1>>, <<3>>, <<-1, 0>>}

ExplicitProbs ==
    {[w |-> <<3, 1>>, den |-> 4], [w |-> <<1, 2, 1>>, den |-> 4], [w |-> <<0, 1>>, den |-> 1]}

ProbsFor(n) == {None} \cup {Some(p) : p \in {q \in ExplicitProbs : Len(q.w) = n}}

SequentialCalls == {Call("sequential", n, 0, <<>>, None, 0, FALSE) : n \in 1..MaxN}

CustomOrderCalls == {Call("customOrder", 0, 0, l, None, 0, FALSE) : l \in CustomLists}

HermanMeyerCalls == {Call("hermanMeyer", n, 0, <<>>, None, 0, FALSE) : n \in 0..MaxHM}

\* the call of the docstring example, staggered(21, 4)
StaggeredExample == Call("staggered", 21, 4, <<>>, None, 0, FALSE)

StaggeredCalls ==
    {Call("staggered", n, o, <<>>, None, 0, FALSE) : n \in 1..MaxN, o \in -1..MaxN}
    \cup {StaggeredExample}

RandomWithReplacementCalls ==
    UNION {{Call("randomWithReplacement", n, 0, <<>>, p, sd, FALSE) :
                p \in ProbsFor(n), sd \in 0..MaxSeed} : n \in 1..MaxN}

RandomWithoutReplacementCalls ==
    {Call("randomWithoutReplacement", n, 0, <<>>, None, sd, sh) :
        n \in 1..MaxN, sd \in 0..MaxSeed, sh \in BOOLEAN}

FactoryCalls ==
    SequentialCalls \cup CustomOrderCalls \cup HermanMeyerCalls \cup StaggeredCalls
    \cup RandomWithReplacementCalls \cup RandomWithoutReplacementCalls

Construct(c) ==
    CASE c.factory = "sequential" -> sequential(c.n)
      [] c.factory = "customOrder" -> customOrder(c.list)
      [] c.factory = "hermanMeyer" -> hermanMeyer(c.n)
      [] c.factory = "staggered" -> staggered(c.n, c.offset)
      [] c.factory = "randomWithReplacement" -> randomWithReplacement(c.n, c.prob, c.seed)
      [] c.factory = "randomWithoutReplacement" ->
             randomWithoutReplacement(c.n, c.seed, c.shuffle)

-----------------------------------------------------------------------------
(* Specification of a Sampler under next() and get_samples() calls *)

Init ==
    \E c \in FactoryCalls :
        LET r == Construct(c)
        IN  /\ call = c
            /\ sampler = r.val
            /\ exc = r.exc
            /\ op = "construct"
            /\ arg = 0
            /\ ret = None
            /\ draws = <<>>
            /\ alg = NoAlg
            /\ upd = NoStep
            /\ updates = 0

NextCall ==
    /\ alg = NoAlg
    /\ sampler.type # "none"
    /\ Len(draws) < MaxCalls
    /\ LET r == next(sampler)
       IN  /\ sampler' = r.self
           /\ exc' = r.exc
           /\ ret' = r.ret
           /\ draws' = IF r.exc = "None" THEN Append(draws, r.ret[1]) ELSE draws
    /\ op' = "next"
    /\ arg' = 0
    /\ UNCHANGED <<call, alg, upd, updates>>

\* the values of num_samples tried on a sampler
SampleSizes(self) ==
    {0, 1, 5, 11, 2 * self.num_subsets, MaxSamples} \cap 0..MaxSamples

GetSamplesCall ==
    /\ alg = NoAlg
    /\ sampler.type # "none"
    /\ \E num_samples \in SampleSizes(sampler) :
        LET r == get_samples(sampler, num_samples)
        IN  /\ sampler' = r.self
            /\ exc' = r.exc
            /\ ret' = r.ret
            /\ arg' = num_samples
    /\ op' = "get_samples"
    /\ UNCHANGED <<call, draws, alg, upd, updates>>

Next == NextCall \/ GetSamplesCall

Spec == Init /\ [][Next]_vars

-----------------------------------------------------------------------------
(* Specification of SPDHG under update() and check_convergence() calls *)

Operators == {<<1>>, <<2>>, <<1, 2>>, <<2, 1, 1>>}

SigmaChoices(n) ==
    {[k \in 1..n |-> Q(1, 2)], [k \in 1..n |-> IF k = 1 THEN Q(1, 4) ELSE Num(1)]}

TauChoices == {Q(1, 2), Num(1)}

SamplerCallsFor(n) ==
    {Call("sequential", n, 0, <<>>, None, 0, FALSE),
     Call("customOrder", 0, 0, <<n - 1, 0>>, None, 0, FALSE),
     Call("customOrder", 0, 0, <<0, n>>, None, 0, FALSE),
     Call("customOrder", 0, 0, <<-1, 0>>, None, 0, FALSE),
     Call("customOrder", 0, 0, <<-n - 1>>, None, 0, FALSE),
     Call("randomWithReplacement", n, 0, <<>>, None, 0, FALSE),
     Call("randomWithoutReplacement", n, 0, <<>>, None, 1, TRUE)}

InitSPDHG ==
    \E operator \in Operators :
    \E c \in SamplerCallsFor(Len(operator)) :
    \E sigma \in SigmaChoices(Len(operator)), tau \in TauChoices :
    \E g \in {"ZeroFunction", "IndicatorBoxLower0"}, initial \in {None, Some(Num(1))} :
        LET f == [k \in 1..Len(operator) |-> [b |-> k]]
        IN  /\ call = c
            /\ sampler = Construct(c).val
            /\ alg = set_up(f, g, operator, Some(sigma), Some(tau), initial,
                            Construct(c).val, None, None, None, None).self
            /\ exc = "None"
            /\ op = "construct"
            /\ arg = initial
            /\ ret = None
            /\ draws = <<>>
            /\ upd = NoStep
            /\ updates = 0

UpdateCall ==
    /\ alg.configured
    /\ Len(draws) < MaxIter
    /\ LET r == update(alg, sampler)
       IN  /\ alg' = r.self
           /\ sampler' = r.sampler
           /\ exc' = r.exc
           /\ upd' = r.upd
           /\ draws' = IF r.yield = None THEN draws ELSE Append(draws, r.yield[1])
    /\ op' = "update"
    /\ ret' = None
    /\ UNCHANGED <<call, arg, updates>>

CheckConvergenceCall ==
    /\ alg.configured
    /\ ret' = check_convergence(alg)
    /\ op' = "check_convergence"
    /\ exc' = "None"
    /\ UNCHANGED <<call, sampler, arg, draws, alg, upd, updates>>

SPDHGUpdateObjectiveCall ==
    /\ alg.configured
    /\ Len(alg.loss) < MaxObjectives
    /\ alg' = SPDHG_update_objective(alg)
    /\ op' = "update_objective"
    /\ exc' = "None"
    /\ ret' = None
    /\ UNCHANGED <<call, sampler, arg, draws, upd, updates>>

NextSPDHG == UpdateCall \/ CheckConvergenceCall \/ SPDHGUpdateObjectiveCall

SpecSPDHG == InitSPDHG /\ [][NextSPDHG]_vars

-----------------------------------------------------------------------------
(* Specification of SPDHG's set-up: the constructor with every way of       *)
(* giving the step sizes, the probabilities and the deprecated arguments,   *)
(* then set_step_sizes() and check_convergence() calls                      *)

Uniform(n) == [k \in 1..n |-> Q(1, n)]

\* sigma arguments: valid ones, one entry too many, a zero entry, a negative entry
SigmaArgs(n) ==
    {None,
     Some([k \in 1..n |-> Q(1, 2)]),
     Some([k \in 1..n |-> IF k = 1 THEN Q(1, 4) ELSE Num(1)]),
     Some([k \in 1..(n + 1) |-> Q(1, 2)]),
     Some([k \in 1..n |-> IF k = n THEN Num(0) ELSE Q(1, 2)]),
     Some([k \in 1..n |-> IF k = 1 THEN Num(-1) ELSE Q(1, 2)])}

TauArgs == {None, Some(Q(1, 2)), Some(Num(0)), Some(Num(-1))}

\* prob_weights arguments: uniform, skewed, with a zero entry, one entry too many
ProbWeightsArgs(n) ==
    {None,
     Some(Uniform(n)),
     Some([k \in 1..n |-> IF n = 1 THEN Num(1) ELSE IF k = 1 THEN Q(n + 1, 2 * n)
                          ELSE Q(1, 2 * n)]),
     Some([k \in 1..n |-> IF k = 1 THEN Num(1) ELSE Num(0)]),
     Some(Uniform(n + 1))}

\* the sampler argument: none, a Sampler, or an object that also has the
\* attribute prob_weights
SamplerArgs(n) ==
    {[given |-> FALSE, prob_weights |-> None],
     [given |-> TRUE, prob_weights |-> None],
     [given |-> TRUE, prob_weights |-> Some(Uniform(n))]}

\* a call whose first block has prob_weight/(sigma*norm^2) = 1/(4*10^8),
\* below the 1e-8 of line 387, and whose second block has 100/99
TinyRatioExample ==
    [operator |-> <<1, 2>>,
     sigma |-> Some(<<Num(100000000), Q(297, 1600)>>),
     tau |-> None,
     prob_weights |-> None,
     sampler |-> [given |-> TRUE, prob_weights |-> Some(<<Q(1, 4), Q(3, 4)>>)],
     prob |-> None,
     norms |-> None]

SetUpCalls ==
    {TinyRatioExample} \cup
    UNION {[operator : {operator},
            sigma : SigmaArgs(Len(operator)),
            tau : TauArgs,
            prob_weights : ProbWeightsArgs(Len(operator)),
            sampler : SamplerArgs(Len(operator)),
            prob : {None, Some(Uniform(Len(operator)))},
            norms : {None, Some([k \in 1..Len(operator) |-> Num(2)])}] :
           operator \in Operators}

InitSetUp ==
    \E c \in SetUpCalls :
        LET n == Len(c.operator)
            f == [k \in 1..n |-> [b |-> k]]
            smp == IF c.sampler.given THEN sequential(n).val ELSE NoSampler
            r == set_up(f, "ZeroFunction", c.operator, c.sigma, c.tau, None, smp,
                        c.sampler.prob_weights, c.prob_weights, c.norms, c.prob)
        IN  /\ call = c
            /\ sampler = r.sampler
            /\ alg = r.self
            /\ exc = r.exc
            /\ op = "construct"
            /\ arg = [sigma |-> c.sigma, tau |-> c.tau]
            /\ ret = Some(r.warned)
            /\ draws = <<>>
            /\ upd = NoStep
            /\ updates = 0

\* the arguments of the later set_step_sizes() calls
LaterSigmaArgs(n) ==
    {None,
     Some([k \in 1..n |-> Q(1, 4)]),
     Some([k \in 1..n |-> IF k = n THEN Num(0) ELSE Q(1, 4)])}

LaterTauArgs == {None, Some(Q(1, 4)), Some(Num(-1))}

SetStepSizesCall ==
    /\ alg.configured
    /\ \E sigma \in LaterSigmaArgs(alg.ndual_subsets), tau \in LaterTauArgs :
        LET r == set_step_sizes(alg, sigma, tau)
        IN  /\ alg' = r.self
            /\ exc' = r.exc
            /\ arg' = [sigma |-> sigma, tau |-> tau]
    /\ op' = "set_step_sizes"
    /\ ret' = None
    /\ UNCHANGED <<call, sampler, draws, upd, updates>>

NextSetUp == SetStepSizesCall \/ CheckConvergenceCall

SpecSetUp == InitSetUp /\ [][NextSetUp]_vars

-----------------------------------------------------------------------------
(* Specification of ISTA and FISTA under update(), the driver's             *)
(* _update_previous_solution() and the provable-convergence query           *)

InitialValues == {Num(0), Num(3)}

Functions == {ZeroFunction, LeastSquares(1, 2), LeastSquares(2, -1), L1Norm}

StepSizes == {Q(1, 2), Num(1), Num(2)}

StepSizeRules == {ConstantStepSize(Num(2)), ConstantStepSize(Q(1, 2)), CustomStepSize(Num(1))}

ISTACalls ==
    [cls : {"ISTA", "FISTA"},
     initial : InitialValues,
     f : {None} \cup {Some(f) : f \in Functions},
     g : {None, Some("ZeroFunction"), Some("IndicatorBoxLower0")},
     step_size : {None} \cup {Some(s) : s \in StepSizes},
     step_size_rule : {None} \cup {Some(r) : r \in StepSizeRules},
     preconditioner : {None, Some(2)}]

InitISTA ==
    \E c \in ISTACalls :
        LET r == ISTA_init(c.cls, c.initial, c.f, c.g, c.step_size, c.step_size_rule,
                           c.preconditioner)
        IN  /\ call = c
            /\ alg = r.self
            /\ exc = r.exc
            /\ op = "construct"
            /\ sampler = NoSampler
            /\ arg = 0
            /\ ret = None
            /\ draws = <<>>
            /\ upd = NoISTAStep
            /\ updates = 0

ISTAUpdateCall ==
    /\ alg.configured
    /\ updates < MaxUpdates
    /\ LET r == algorithm_update(alg)
       IN  /\ alg' = r.self
           /\ exc' = r.exc
           /\ upd' = r.upd
           /\ updates' = IF r.exc = "None" THEN updates + 1 ELSE updates
    /\ op' = "update"
    /\ ret' = None
    /\ UNCHANGED <<call, sampler, arg, draws>>

UpdatePreviousSolutionCall ==
    /\ alg.configured
    /\ alg' = update_previous_solution(alg)
    /\ op' = "_update_previous_solution"
    /\ exc' = "None"
    /\ ret' = None
    /\ UNCHANGED <<call, sampler, arg, draws, upd, updates>>

ProvableConvergenceCall ==
    /\ alg.configured
    /\ LET r == provable_convergence_condition(alg)
       IN  /\ exc' = r.exc
           /\ ret' = r.ret
    /\ op' = "is_provably_convergent"
    /\ UNCHANGED <<call, sampler, arg, draws, alg, upd, updates>>

UpdateObjectiveCall ==
    /\ alg.configured
    /\ Len(alg.loss) < MaxObjectives
    /\ alg' = update_objective(alg)
    /\ op' = "update_objective"
    /\ exc' = "None"
    /\ ret' = None
    /\ UNCHANGED <<call, sampler, arg, draws, upd, updates>>

NextISTA ==
    \/ ISTAUpdateCall
    \/ UpdatePreviousSolutionCall
    \/ ProvableConvergenceCall
    \/ UpdateObjectiveCall

SpecISTA == InitISTA /\ [][NextISTA]_vars

-----------------------------------------------------------------------------
(* Properties of the Sampler, checked under Spec *)

IsPrime(p) == p >= 2 /\ \A d \in 2..(p - 1) : p % d # 0

\* the order a factory call declares, for the factories that cycle a list
Declared(c) == IF c.factory = "sequential" THEN Range(c.n) ELSE c.list

Cycled(order, k) == order[((k - 1) % Len(order)) + 1]

\* what a sampler built afresh by the same call returns from its first n next() calls
FreshDraws(c, n) == draw_samples(Construct(c).val, n, <<>>)

\* C1: every next() on a sampler a factory returned yields an integer in
\* [0, num_subsets).
C1_NextInRange ==
    op = "next" =>
        /\ exc = "None"
        /\ ret # None
        /\ ret[1] \in 0..(sampler.num_subsets - 1)

\* C2: get_samples leaves the cursor, the working order and the generator
\* (every field of the sampler) as they were before the call.
C2_GetSamplesLeavesSampler == [][op' = "get_samples" => sampler' = sampler]_vars

\* (the same, for the get_samples calls that return: lines 444-446 are reached)
GetSamplesRestoresWhenReturned ==
    [][(op' = "get_samples" /\ exc' = "None") => sampler' = sampler]_vars

\* C3: at any point of the sampler's life get_samples(n) ends as the first n
\* next() calls on a freshly constructed sampler do, returning exactly their
\* values, which are also the values the live sampler returned first.
C3_GetSamplesReplaysFresh ==
    op = "get_samples" =>
        /\ exc = FreshDraws(call, arg).exc
        /\ ret = FreshDraws(call, arg).ret
        /\ exc = "None" =>
               /\ Len(ret[1]) = arg
               /\ \A k \in 1..Len(draws) : k <= arg => ret[1][k] = draws[k]

C3_Witness ==
    /\ op = "get_samples"
    /\ exc = "None"
    /\ arg = 5
    /\ call.factory = "randomWithoutReplacement"
    /\ call.shuffle
    /\ call.n = 3
    /\ Len(draws) = 7
    /\ sampler.order # sampler.initial_order

\* C7: hermanMeyer(p) raises ValueError for every prime p and returns no sampler.
C7_PrimeRaises ==
    (op = "construct" /\ call.factory = "hermanMeyer" /\ IsPrime(call.n)) =>
        (exc = "ValueError" /\ sampler = NoSampler)

IsRWOR == call.factory = "randomWithoutReplacement" /\ call.n >= 1

\* every complete block of n consecutive draws holds each index exactly once
C8_Blocks ==
    (IsRWOR /\ call.shuffle) =>
        \A k \in 0..((Len(draws) \div call.n) - 1) :
            \A v \in 0..(call.n - 1) :
                Cardinality({j \in 1..call.n : draws[k * call.n + j] = v}) = 1

\* with shuffle=False the working order stays the one the factory built
C8_Fixed ==
    (IsRWOR /\ ~call.shuffle) =>
        (sampler.order = Some(Range(call.n)) /\ sampler.generator = RandomState(call.seed))

\* a next() call re-permutes the order with the generator exactly when
\* shuffle is on and the cursor is at the last position
C8_Repermute ==
    (IsRWOR /\ op' = "next") =>
        IF call.shuffle /\ sampler.last_subset = call.n - 1
        THEN LET p == permutation(sampler.generator, sampler.order[1])
             IN  sampler'.order = Some(p.arr) /\ sampler'.generator = p.gen
        ELSE sampler'.order = sampler.order /\ sampler'.generator = sampler.generator

\* C8: randomWithoutReplacement: each block of n draws is a permutation of
\* {0..n-1}; the order is re-permuted exactly when the cursor is at the last
\* position, and never when shuffle=False.
C8_PermutationPerCycle == [](C8_Blocks /\ C8_Fixed) /\ [][C8_Repermute]_vars

C8_Witness ==
    /\ IsRWOR
    /\ call.shuffle
    /\ call.n = 3
    /\ op = "next"
    /\ Len(draws) = 6
    /\ SubSeq(draws, 1, 3) # SubSeq(draws, 4, 6)

SmallestDivisor(n) == CHOOSE d \in 2..n : n % d = 0 /\ \A e \in 2..(d - 1) : n % e # 0

\* the prime factorisation of n >= 1, ascending
RECURSIVE PrimeFactors(_)
PrimeFactors(n) ==
    IF n <= 1 THEN <<>>
    ELSE <<SmallestDivisor(n)>> \o PrimeFactors(n \div SmallestDivisor(n))

\* sum over j of prod(factors after j) * ((e div prod(factors before j)) mod f_j)
RECURSIVE MixedRadixReversal(_, _, _)
MixedRadixReversal(e, factors, j) ==
    IF j > Len(factors) THEN 0
    ELSE prod(SubSeq(factors, j + 1, Len(factors)))
             * ((e \div prod(SubSeq(factors, 1, j - 1))) % factors[j])
         + MixedRadixReversal(e, factors, j + 1)

\* C10: for non-prime n >= 4 the order of hermanMeyer(n) is the mixed-radix
\* index reversal over the prime factorisation of n, a permutation of
\* {0..n-1}, and next() cycles through it.
C10_HermanMeyerOrder ==
    (call.factory = "hermanMeyer" /\ call.n >= 4 /\ ~IsPrime(call.n)) =>
        LET n == call.n
            order == [e \in 1..n |-> MixedRadixReversal(e - 1, PrimeFactors(n), 1)]
        IN  /\ exc = "None"
            /\ sampler.initial_order = Some(order)
            /\ sampler.order = Some(order)
            /\ {order[e] : e \in 1..n} = 0..(n - 1)
            /\ \A k \in 1..Len(draws) : draws[k] = Cycled(order, k)
            /\ op = "get_samples" =>
                   /\ Len(ret[1]) = arg
                   /\ \A k \in 1..arg : ret[1][k] = Cycled(order, k)
            /\ (op = "get_samples" /\ n = 12 /\ arg = 16) =>
                   ret[1] = <<0, 6, 3, 9, 1, 7, 4, 10, 2, 8, 5, 11, 0, 6, 3, 9>>

C10_Witness ==
    /\ call.factory = "hermanMeyer"
    /\ call.n = 12
    /\ Len(draws) = 9
    /\ op = "get_samples"
    /\ arg = 16
    /\ ret = Some(<<0, 6, 3, 9, 1, 7, 4, 10, 2, 8, 5, 11, 0, 6, 3, 9>>)

\* the number of indices of 0..n-1 visited before v: those of a smaller
\* residue modulo offset, and the smaller ones of the same residue
StaggeredRank(n, offset, v) ==
    Cardinality({u \in 0..(n - 1) :
        \/ u % offset < v % offset
        \/ (u % offset = v % offset /\ u < v)})

StaggeredExpected(n, offset) ==
    [p \in 1..n |-> CHOOSE v \in 0..(n - 1) : StaggeredRank(n, offset, v) = p - 1]

\* C11: staggered(n, offset) raises when offset >= n; for 1 <= offset < n its
\* order lists, for i = 0..offset-1, the indices i, i+offset, i+2*offset, ...
\* below n, a permutation of {0..n-1} that next() cycles through;
\* staggered(21,4).get_samples(5) = [0,4,8,12,16].
C11_StaggeredOrder ==
    call.factory = "staggered" =>
        LET n == call.n
            offset == call.offset
        IN  /\ offset >= n => (exc = "ValueError" /\ sampler = NoSampler)
            /\ (1 <= offset /\ offset < n) =>
                   LET order == StaggeredExpected(n, offset)
                   IN  /\ exc = "None"
                       /\ sampler.initial_order = Some(order)
                       /\ sampler.order = Some(order)
                       /\ {order[e] : e \in 1..n} = 0..(n - 1)
                       /\ \A k \in 1..Len(draws) : draws[k] = Cycled(order, k)
                       /\ op = "next" => ret = Some(Cycled(order, Len(draws)))
                       /\ op = "get_samples" =>
                              /\ Len(ret[1]) = arg
                              /\ \A k \in 1..arg : ret[1][k] = Cycled(order, k)
                       /\ (op = "get_samples" /\ call = StaggeredExample /\ arg = 5) =>
                              ret[1] = <<0, 4, 8, 12, 16>>

C11_Witness ==
    /\ call = StaggeredExample
    /\ Len(draws) = 9
    /\ draws[7] = 1
    /\ op = "get_samples"
    /\ arg = 5
    /\ ret = Some(<<0, 4, 8, 12, 16>>)

C11_WitnessRaise ==
    /\ call.factory = "staggered"
    /\ call.offset = call.n
    /\ exc = "ValueError"

-----------------------------------------------------------------------------
(* Properties of ISTA and FISTA, checked under SpecISTA *)

\* the argument stands for the zero function: None or ZeroFunction()
ZeroGiven(f) == f = None \/ f[1].name = "ZeroFunction"

BothZeroGiven == ZeroGiven(call.f) /\ (call.g = None \/ call.g[1] = "ZeroFunction")

\* C12: constructing ISTA or FISTA with f and g both the zero function (given
\* as ZeroFunction or as None) raises ValueError in set_up, and the instance
\* is never configured.
C12_BothZeroRaises ==
    BothZeroGiven => (op = "construct" /\ exc = "ValueError" /\ ~alg.configured)

C12_Witness ==
    /\ call.cls = "FISTA"
    /\ call.f = None
    /\ call.g = Some("ZeroFunction")
    /\ call.step_size # None
    /\ exc = "ValueError"
    /\ ~alg.configured

\* the Lipschitz constant of the function the call hands over, when it has one
HasL(f) == f # None /\ f[1].name = "LeastSquares"

DefaultBuilt == call.step_size = None /\ call.step_size_rule = None

\* C14: with a constant step size and no preconditioner the provable-
\* convergence check returns true iff step_size <= 0.99*2/L (ISTA), iff
\* step_size <= 1/L (FISTA); an instance built with the default step size
\* passes its own check.
C14_ConvergenceThreshold ==
    (op = "is_provably_convergent" /\ alg.preconditioner = None
        /\ alg.step_size_rule[1].kind = "ConstantStepSize"
        /\ Lipschitz(alg.f) # None) =>
        LET s == alg.step_size_rule[1].step_size
            L == Lipschitz(alg.f)[1]
        IN  /\ exc = "None"
            /\ ret = Some(IF alg.cls = "ISTA"
                          THEN 100 * L[1] * s[1] <= 99 * 2 * L[2] * s[2]
                          ELSE L[1] * s[1] <= L[2] * s[2])
            /\ DefaultBuilt => ret = Some(TRUE)

C14_Witness ==
    /\ op = "is_provably_convergent"
    /\ call.cls = "ISTA"
    /\ DefaultBuilt
    /\ call.preconditioner = None
    /\ call.f = Some(LeastSquares(2, -1))
    /\ updates = 1
    /\ ret = Some(TRUE)

C14_WitnessFalse ==
    /\ op = "is_provably_convergent"
    /\ call.cls = "FISTA"
    /\ call.step_size = Some(Num(1))
    /\ call.f = Some(LeastSquares(2, -1))
    /\ ret = Some(FALSE)

\* the exception the query raises, by what the instance holds
C15_QueryFails ==
    op = "is_provably_convergent" =>
        /\ alg.preconditioner # None => (exc = "NotImplementedError" /\ ret = None)
        /\ (alg.preconditioner = None /\ alg.step_size_rule[1].kind # "ConstantStepSize") =>
               (exc = "TypeError" /\ ret = None)

\* a query that raised changed nothing of the object
C15_QueryKeepsState ==
    (op' = "is_provably_convergent" /\ exc' # "None") =>
        (alg' = alg /\ updates' = updates)

\* the update() that follows a failed query is the update() of the state the
\* query was made in
C15_UpdateAfterQuery ==
    (op = "is_provably_convergent" /\ exc # "None" /\ op' = "update") =>
        (alg' = algorithm_update(alg).self /\ exc' = algorithm_update(alg).exc)

\* C15: the provable-convergence query fails with NotImplementedError when a
\* preconditioner is present and with TypeError when the step-size rule is
\* not constant; the failed query leaves x, x_old, y, t, loss and the rule
\* unchanged, and a later update() behaves as if it had not been made.
C15_FailedQueryHarmless ==
    []C15_QueryFails /\ [][C15_QueryKeepsState /\ C15_UpdateAfterQuery]_vars

C15_Witness ==
    /\ op = "is_provably_convergent"
    /\ exc = "NotImplementedError"
    /\ call.cls = "FISTA"
    /\ alg.step_size_rule[1].kind = "custom"
    /\ updates = 1

C15_WitnessTypeError ==
    /\ op = "is_provably_convergent"
    /\ exc = "TypeError"
    /\ alg.preconditioner = None
    /\ alg.step_size_rule[1].kind = "custom"
    /\ updates = 1

-----------------------------------------------------------------------------
(* Properties of SPDHG, checked under SpecSPDHG *)

\* sigma[i]*tau*norms[i]**2 > prob_weights[i], for the block at position i
Exceeds(self, i) ==
    RLt(self.prob_weights[i],
        RMul(RMul(self.sigma[i], self.tau), RMul(self.norms[i], self.norms[i])))

\* C4: check_convergence() returns false iff some block i has
\* sigma[i]*tau*norms[i]**2 > prob_weights[i].
C4_CheckConvergenceAllBlocks ==
    op = "check_convergence" =>
        ret = Some(~(\E i \in 1..alg.ndual_subsets : Exceeds(alg, i)))

\* C5: a successful update() changes the dual iterate of the sampled block
\* only, and leaves in it the result of that block's proximal-of-conjugate step.
C5_OnlySampledBlockChanges ==
    [][(op' = "update" /\ exc' = "None") =>
           LET b == upd'.block + 1
               point == RAdd(RMul(alg.sigma[b], direct(alg.operator[b], alg'.x)),
                             alg.y_old[b])
           IN  /\ \A j \in 1..alg.ndual_subsets :
                      j # b => alg'.y_old[j] = alg.y_old[j]
               /\ alg'.y_old[b] = proximal_conjugate(alg.f[b], point, alg.sigma[b])
               /\ alg'.y_old[b] = upd'.y_k]_vars

C5_Witness ==
    /\ op = "update"
    /\ exc = "None"
    /\ alg.ndual_subsets = 2
    /\ Len(draws) = 3
    /\ draws[1] = upd.i
    /\ upd.i \in 0..1
    /\ upd.d # Num(0)
    /\ alg.y_old[upd.block + 1] # alg.x_tmp
    /\ \A j \in 1..2 : alg.y_old[j] # Num(0)

\* C6: a sampler index outside [0, number_of_blocks) makes update() fail
\* with an IndexError.
C6_OutOfRangeRaises ==
    (op = "update" /\ draws # <<>>
        /\ draws[Len(draws)] \notin 0..(alg.ndual_subsets - 1)) =>
        exc = "IndexError"

-----------------------------------------------------------------------------
(* Properties of SPDHG's set-up, checked under SpecSetUp *)

\* the latest call resolved the step sizes and returned
Resolved == op \in {"construct", "set_step_sizes"} /\ exc = "None"

\* the blocks that have a probability weight
Weighted(self) == 1..Min(self.ndual_subsets, Len(self.prob_weights))

\* v_i = prob_weights[i] / (sigma[i] * norms[i]^2)
StepRatio(self, i) ==
    RDiv(self.prob_weights[i], RMul(self.sigma[i], RMul(self.norms[i], self.norms[i])))

BadSigma(sigma, n) ==
    sigma # None /\ (Len(sigma[1]) # n \/ \E k \in 1..Len(sigma[1]) : sigma[1][k][1] <= 0)

\* v > 1e-8, for a rational v
AboveThreshold(v) == v[1] > 0 /\ (v[2] \div 100000000) < v[1]

C17_DerivedSigma ==
    (Resolved /\ arg.tau # None) =>
        /\ alg.tau = arg.tau[1]
        /\ arg.sigma # None => alg.sigma = arg.sigma[1]
        /\ (arg.sigma = None /\ Len(alg.prob_weights) >= alg.ndual_subsets) =>
               /\ Len(alg.sigma) = alg.ndual_subsets
               /\ \A i \in 1..alg.ndual_subsets :
                      RMul(RMul(alg.sigma[i], alg.tau), RMul(alg.norms[i], alg.norms[i]))
                          = RMul(<<99, 100>>, alg.prob_weights[i])

C17_Witness ==
    /\ op = "construct"
    /\ exc = "None"
    /\ arg.sigma = None
    /\ arg.tau = Some(Q(1, 2))
    /\ alg.operator = <<2, 1, 1>>
    /\ alg.prob_weights = <<Q(2, 3), Q(1, 6), Q(1, 6)>>
    /\ alg.sigma = <<Q(33, 100), Q(33, 100), Q(33, 100)>>

\* the constructor call reaches set_step_sizes: a sampler is given, no
\* deprecated argument, and prob_weights not given twice
ReachesStepSizes ==
    /\ call.sampler.given
    /\ call.prob = None
    /\ call.norms = None
    /\ ~(call.prob_weights # None /\ call.sampler.prob_weights # None)

BadTau(tau) == tau # None /\ tau[1][1] <= 0

\* C18: set_step_sizes rejects with ValueError every sigma of the wrong
\* length, every sigma with a non-positive entry and every tau <= 0,
\* whether or not the other step size is supplied.
C18_InvalidStepSizesRejected ==
    ((op = "construct" /\ ReachesStepSizes) \/ op = "set_step_sizes") =>
        ((BadSigma(arg.sigma, alg.ndual_subsets) \/ BadTau(arg.tau)) => exc = "ValueError")

\* (the same, apart from tau = 0 given without sigma)
InvalidStepSizesRejectedApartFromZeroTau ==
    ((op = "construct" /\ ReachesStepSizes) \/ op = "set_step_sizes") =>
        /\ (BadSigma(arg.sigma, alg.ndual_subsets) \/ BadTau(arg.tau)) => exc # "None"
        /\ ((BadSigma(arg.sigma, alg.ndual_subsets) \/ BadTau(arg.tau))
               /\ ~(arg.sigma = None /\ arg.tau = Some(Num(0)))) => exc = "ValueError"

\* C19: after every successful set_up and set_step_sizes,
\* len(sigma) = len(prob_weights) = len(operator) = len(f).
C19_LengthsAgree ==
    Resolved =>
        /\ Len(alg.sigma) = Len(alg.prob_weights)
        /\ Len(alg.prob_weights) = Len(alg.operator)
        /\ Len(alg.operator) = Len(alg.f)

\* the step sizes and probabilities of the constructor call are valid ones
ValidStepArguments ==
    /\ ~BadSigma(call.sigma, Len(call.operator))
    /\ ~BadTau(call.tau)
    /\ call.prob_weights # None => Len(call.prob_weights[1]) = Len(call.operator)

\* C20: set_up with the deprecated prob (and no prob_weights, as argument or
\* sampler attribute) or norms warns and succeeds, prob used as prob_weights
\* and norms installed on the operator; prob together with prob_weights is a
\* ValueError.
C20_DeprecatedArguments ==
    (op = "construct" /\ ValidStepArguments /\ call.sampler.given) =>
        /\ (call.prob # None /\ (call.prob_weights # None \/ call.sampler.prob_weights # None))
               => exc = "ValueError"
        /\ (call.prob # None /\ call.prob_weights = None /\ call.sampler.prob_weights = None)
               => (exc = "None" /\ ret = Some(TRUE) /\ alg.configured
                   /\ alg.prob_weights = call.prob[1])
        /\ (call.norms # None /\ call.prob = None
               /\ ~(call.prob_weights # None /\ call.sampler.prob_weights # None))
               => (exc = "None" /\ ret = Some(TRUE) /\ alg.configured
                   /\ alg.operator_norms = call.norms /\ alg.norms = call.norms[1])

\* (the conflict alone: prob together with prob_weights is rejected)
DeprecatedConflictRejected ==
    (op = "construct"
        /\ call.prob # None /\ (call.prob_weights # None \/ call.sampler.prob_weights # None))
        => exc = "ValueError"

-----------------------------------------------------------------------------
(* The reference SPDHG is compared with: PDHG on one operator K, in the     *)
(* form SPDHG's steps take with one block of probability 1.  Its state is   *)
(* [x, y, y_bar].                                                           *)

\* one PDHG step: x+ = prox_{tau g}(x - tau K^T y_bar),
\* y+ = prox_{sigma f*}(y + sigma K x+), y_bar+ = y+ + theta (y+ - y), theta = 1
PDHG_update(g, f, K, sigma, tau, s) ==
    LET x1 == proximal(g, RSub(s.x, RMul(tau, RMul(Num(K), s.y_bar))), tau)
        y1 == proximal_conjugate(f, RAdd(s.y, RMul(sigma, RMul(Num(K), x1))), sigma)
    IN  [x |-> x1, y |-> y1, y_bar |-> RAdd(y1, RSub(y1, s.y))]

\* k PDHG steps from the primal point x0 and the dual point 0
RECURSIVE PDHG_run(_, _, _, _, _, _, _)
PDHG_run(g, f, K, sigma, tau, x0, k) ==
    IF k = 0 THEN [x |-> x0, y |-> Num(0), y_bar |-> Num(0)]
    ELSE PDHG_update(g, f, K, sigma, tau, PDHG_run(g, f, K, sigma, tau, x0, k - 1))

-----------------------------------------------------------------------------
(* Properties of SPDHG.update, checked under SpecSPDHG *)

\* the sampler of the run yields 0 at every draw the run can make
AlwaysZero(c) ==
    LET d == FreshDraws(c, MaxIter + 1)
    IN  d.exc = "None" /\ \A k \in 1..(MaxIter + 1) : d.ret[1][k] = 0

\* one block of probability 1 and a sampler that always returns 0
SingleBlock ==
    alg.ndual_subsets = 1 /\ alg.prob_weights = <<Num(1)>> /\ AlwaysZero(call)

\* the reference run after as many steps as update() was called
Reference ==
    PDHG_run(alg.g, alg.f[1], alg.operator[1], alg.sigma[1], alg.tau,
             IF arg = None THEN Num(0) ELSE arg[1], Len(draws))

PrimalStep(self) == proximal(self.g, RSub(self.x, RMul(self.tau, self.zbar)), self.tau)

\* C24 as stated: the point handed to the sampled block's
\* proximal-of-conjugate is sigma[i]*y_old[i] + operator[i].direct(x), x
\* being the primal iterate the same call produced.
C24_AscentPointAsStated ==
    [][(op' = "update" /\ exc' = "None") =>
           LET b == upd'.block + 1
           IN  /\ alg'.x = PrimalStep(alg)
               /\ upd'.y_in = RAdd(RMul(alg.sigma[b], alg.y_old[b]),
                                   direct(alg.operator[b], alg'.x))]_vars

\* C24 (amended): the point handed to the sampled block's
\* proximal-of-conjugate is y_old[i] + sigma[i]*operator[i].direct(x), x
\* being the primal iterate the same call produced.
C24_AscentPoint ==
    [][(op' = "update" /\ exc' = "None") =>
           LET b == upd'.block + 1
           IN  /\ alg'.x = PrimalStep(alg)
               /\ upd'.y_in = RAdd(alg.y_old[b],
                                   RMul(alg.sigma[b], direct(alg.operator[b], alg'.x)))
               /\ upd'.y_k = proximal_conjugate(alg.f[b], upd'.y_in, alg.sigma[b])]_vars

C24_Witness ==
    /\ op = "update"
    /\ exc = "None"
    /\ Len(draws) = 3
    /\ alg.sigma[upd.block + 1] # Num(1)
    /\ upd.x # Num(0)
    /\ upd.d # Num(0)
    /\ upd.y_k # upd.y_in
    /\ upd.y_k # RSub(upd.y_k, RDiv(upd.d, Num(alg.operator[upd.block + 1])))
    /\ RSub(upd.y_k, RDiv(upd.d, Num(alg.operator[upd.block + 1]))) # Num(0)

\* C25: a successful update() that sampled block i leaves
\* z = z_before + d and zbar = z + (theta/prob_weights[i])*d, theta = 1,
\* with d = K_i^T(y_new - y_prev) the back-projected change of block i's
\* dual iterate, and x = prox_{tau*g}(x_before - tau*zbar_before).
C25_AggregatesFollowDual ==
    [][(op' = "update" /\ exc' = "None") =>
           LET b == upd'.block + 1
               d == RMul(Num(alg.operator[b]), RSub(alg'.y_old[b], alg.y_old[b]))
           IN  /\ alg.theta = Num(1)
               /\ alg'.z = RAdd(alg.z, d)
               /\ alg'.zbar = RAdd(alg'.z, RMul(RDiv(alg.theta, alg.prob_weights[b]), d))
               /\ alg'.x = PrimalStep(alg)
               /\ alg'.x_tmp = d]_vars

C25_Witness ==
    /\ op = "update"
    /\ exc = "None"
    /\ Len(draws) = 3
    /\ alg.ndual_subsets = 3
    /\ alg.operator[upd.block + 1] = 2
    /\ alg.prob_weights[upd.block + 1] = Q(1, 3)
    /\ upd.d # Num(0)
    /\ alg.z # upd.d
    /\ alg.zbar = RAdd(alg.z, RMul(Num(3), upd.d))
    /\ alg.x # Num(0)

\* the dual side of the object: the dual iterates and their aggregates
DualState(self) == <<self.y_old, self.z, self.zbar>>

\* the position a valid index i selects among n blocks
BlockOf(n, i) == IF i < 0 THEN n + i + 1 ELSE i + 1

\* C26 (update part): update() draws one index, the next the sampler
\* yields, after the primal step; the dual side changes at the drawn block
\* only, and not at all when the call fails after the draw.
C26_UpdateDrawsOnce ==
    op' = "update" =>
        LET k == Len(draws')
        IN  /\ sampler' = next(sampler).self
            /\ k = Len(draws) + 1
            /\ FreshDraws(call, k).exc = "None"
            /\ draws'[k] = FreshDraws(call, k).ret[1][k]
            /\ draws'[k] = next(sampler).ret[1]
            /\ alg'.x = PrimalStep(alg)
            /\ exc' # "None" => DualState(alg') = DualState(alg)
            /\ exc' = "None" =>
                   /\ upd'.i = draws'[k]
                   /\ \A j \in 1..alg.ndual_subsets :
                          j # BlockOf(alg.ndual_subsets, draws'[k]) =>
                              alg'.y_old[j] = alg.y_old[j]
                   /\ alg'.y_old[BlockOf(alg.ndual_subsets, draws'[k])] = upd'.y_k

\* C26 (other calls): update_objective() and check_convergence() leave the
\* sampler as it is.
C26_OthersLeaveSampler ==
    op' \in {"update_objective", "check_convergence"} =>
        sampler' = sampler /\ draws' = draws

\* C26: every update() draws exactly one index from the sampler, after the
\* primal proximal step and before any dual change, so the block the k-th
\* update modifies is the k-th value the sampler yields; update_objective()
\* and check_convergence() never advance the sampler.
C26_OneDrawPerUpdate == [][C26_UpdateDrawsOnce /\ C26_OthersLeaveSampler]_vars

C26_Witness ==
    /\ op = "update"
    /\ exc = "None"
    /\ Len(draws) = 3
    /\ draws = <<2, 1, 0>>
    /\ call.factory = "randomWithoutReplacement"
    /\ Len(alg.loss) = 1
    /\ \A j \in 1..3 : alg.y_old[j] # Num(0)

C26_WitnessFailedAfterDraw ==
    /\ op = "update"
    /\ exc = "IndexError"
    /\ Len(draws) = 2
    /\ alg.ndual_subsets = 2
    /\ alg.x # Num(0)
    /\ alg.y_old[1] # Num(0)

\* sum over the blocks j = k..n of K_j^T y_j
RECURSIVE BackProjection(_, _, _)
BackProjection(operator, y, k) ==
    IF k > Len(operator) THEN Num(0)
    ELSE RAdd(RMul(Num(operator[k]), y[k]), BackProjection(operator, y, k + 1))

\* C27: after set_up and any number of update() calls, z is the sum over
\* all blocks j of operator[j].adjoint(y_old[j]).
C27_ZIsBackProjection ==
    alg.configured => alg.z = BackProjection(alg.operator, alg.y_old, 1)

C27_Witness ==
    /\ op = "update"
    /\ exc = "None"
    /\ Len(draws) = 3
    /\ alg.operator = <<2, 1, 1>>
    /\ \A j \in 1..3 : alg.y_old[j] # Num(0)
    /\ alg.z # Num(0)
    /\ alg.z # alg.zbar
    /\ alg.z # RMul(Num(2), alg.y_old[1])

-----------------------------------------------------------------------------
(* Properties of ISTA and FISTA under the driver's convention, checked      *)
(* under SpecISTA                                                           *)

\* the object the constructor call of the run built
Constructed ==
    ISTA_init(call.cls, call.initial, call.f, call.g, call.step_size,
              call.step_size_rule, call.preconditioner).self

\* the run of k driver iterations on it
After(k) == driver_run(Constructed, k)

\* the k updates made so far were the k iterations of the driver: the object
\* is where they leave it, whatever update_objective() recorded on the way
AtIteration(k) ==
    /\ updates = k
    /\ alg.configured
    /\ LET run == After(k)
       IN  run.exc = "None" /\ [alg EXCEPT !.loss = <<>>] = run.self

\* the k-th primal iterate of that run, the initial point for k = 0
Iterate(k) == IF k = 0 THEN call.initial ELSE After(k).produced[k]

\* C22 (state part): after k iterations of the driver on a FISTA object,
\* x_old holds the iterate update k produced (the initial point for k = 0),
\* which is what get_output() returns, and t is 1 before the first update.
C22_OutputIsIterate ==
    \A k \in 0..MaxUpdates :
        (alg.cls = "FISTA" /\ AtIteration(k)) =>
            /\ get_output(alg) = Iterate(k)
            /\ k = 0 => alg.t = Some(Num(1))

\* C22 (step part): update k + 1 made after k iterations of the driver leaves
\* y = x_new + ((t_old - 1)/t_new)*(x_new - x_k), x_new being the iterate
\* it produced and x_k the one update k produced.
C22_Extrapolation ==
    \A k \in 0..MaxUpdates :
        (alg.cls = "FISTA" /\ op' = "update" /\ exc' = "None" /\ AtIteration(k)) =>
            LET x_new == alg'.heap[alg'.x]
                coefficient == RDiv(RSub(alg.t[1], Num(1)), alg'.t[1])
            IN  /\ alg'.heap[alg'.y[1]]
                       = RAdd(x_new, RMul(coefficient, RSub(x_new, Iterate(k))))
                /\ k = 0 => coefficient = Num(0)

ISTAStep(prev) ==
    LET x_prev == get_output(prev)
        s == get_step_size(prev.step_size_rule[1]).ret
        grad == gradient(prev.f, x_prev).ret[1]
        scaled == IF prev.preconditioner = None THEN grad
                  ELSE apply(prev.preconditioner[1], grad)
    IN  proximal(prev.g, RSub(x_prev, RMul(s, scaled)), s)

\* C23 (iterate part): k iterations of the driver leave in get_output() the
\* proximal-gradient step from what get_output() returned after k - 1, and
\* the rule as one query leaves it.
C23_OutputIsProximalStep ==
    \A k \in 1..MaxUpdates :
        (alg.cls = "ISTA" /\ AtIteration(k)) =>
            /\ get_output(alg) = ISTAStep(After(k - 1).self)
            /\ get_output(alg) = Iterate(k)
            /\ alg.step_size_rule
                   = Some(get_step_size(After(k - 1).self.step_size_rule[1]).rule)

\* C23 (objective part): update_objective() after an iteration appends one
\* value, f + g at the iterate get_output() returns, and changes nothing else.
C23_ObjectiveAtOutput ==
    \A k \in 1..MaxUpdates :
        (alg.cls = "ISTA" /\ op' = "update_objective" /\ AtIteration(k)) =>
            /\ exc' = "None"
            /\ alg' = [alg EXCEPT !.loss =
                          Append(@, add_to_product(value(alg.f, get_output(alg)),
                                                   g_value(alg.g, get_output(alg))))]
            /\ get_output(alg') = get_output(alg)

\* C23: under the driver's convention, after the k-th ISTA iteration
\* get_output() returns prox_{s*g}(x_{k-1} - s*P(grad f(x_{k-1}))), with
\* x_{k-1} the output before the iteration, P the preconditioner and s the
\* step size queried once; update_objective() then appends exactly f + g at
\* that iterate.
C23_ISTAIteration == []C23_OutputIsProximalStep /\ [][C23_ObjectiveAtOutput]_vars

C23_Witness ==
    /\ alg.cls = "ISTA"
    /\ AtIteration(2)
    /\ op = "update_objective"
    /\ Len(alg.loss) = 1
    /\ \A k \in DOMAIN alg.loss[1] : alg.loss[1][k] \notin {Num(0), Inf}
    /\ alg.preconditioner # None
    /\ alg.step_size_rule[1].kind = "custom"
    /\ get_output(alg) # get_output(After(1).self)
    /\ get_output(After(1).self) # call.initial

\* the containers the proximal step of update() reads and writes
ProximalReads(self) == IF self.cls = "FISTA" THEN self.y[1] ELSE self.x_old

ProximalWrites(self) == self.x

\* C29: after set_up and any sequence of update() and
\* _update_previous_solution() calls, x and x_old name two distinct
\* containers, neither of them the caller's initial nor, for FISTA, y; the
\* caller's initial keeps its value and the proximal step reads one container
\* and writes another.
C29_BuffersDistinct ==
    alg.configured =>
        /\ alg.initial = 1
        /\ alg.x # alg.x_old
        /\ alg.x # alg.initial
        /\ alg.x_old # alg.initial
        /\ alg.cls = "FISTA" => alg.y[1] \notin {alg.x, alg.x_old, alg.initial}
        /\ alg.heap[alg.initial] = call.initial
        /\ ProximalReads(alg) # ProximalWrites(alg)
        /\ {alg.x, alg.x_old} \subseteq 1..Len(alg.heap)

C29_Witness ==
    /\ alg.cls = "FISTA"
    /\ op = "_update_previous_solution"
    /\ updates = 2
    /\ AtIteration(2)
    /\ alg.x_old = Constructed.x_old
    /\ alg.heap[alg.x] # call.initial
    /\ alg.heap[alg.x_old] # call.initial
    /\ alg.heap[alg.x] # alg.heap[alg.x_old]
    /\ alg.heap[alg.y[1]] # call.initial

-----------------------------------------------------------------------------
(* Properties of the step sizes SPDHG derives, checked under SpecSetUp *)

\* one positive probability weight per block
PositiveWeights(self) ==
    /\ Len(self.prob_weights) = self.ndual_subsets
    /\ \A i \in 1..self.ndual_subsets : self.prob_weights[i][1] > 0

\* C28: when step-size resolution succeeds with at most one of sigma and
\* tau supplied, with positive norms and one positive probability weight per
\* block, sigma[i]*tau*norms[i]^2 <= prob_weights[i] for every block i.
C28_DerivedStepSizesConverge ==
    (Resolved /\ (arg.sigma = None \/ arg.tau = None) /\ PositiveWeights(alg)) =>
        \A i \in 1..alg.ndual_subsets : ~Exceeds(alg, i)

\* (the same where every prob_weights[i]/(sigma[i]*norms[i]^2) is above the
\* 1e-8 of line 387)
DerivedStepSizesConvergeAboveThreshold ==
    (/\ Resolved
     /\ arg.sigma = None \/ arg.tau = None
     /\ PositiveWeights(alg)
     /\ arg.tau = None =>
            \A i \in 1..alg.ndual_subsets : AboveThreshold(StepRatio(alg, i))) =>
        \A i \in 1..alg.ndual_subsets : ~Exceeds(alg, i)

\* C30: a set_step_sizes(sigma, tau) call on a configured instance that
\* raises leaves the stored sigma and tau as they were.
C30_FailedCallKeepsStepSizes ==
    [][(op' = "set_step_sizes" /\ exc' # "None") =>
           (alg'.sigma = alg.sigma /\ alg'.tau = alg.tau)]_vars

\* (the same for the calls that raise on sigma, and for tau in every call
\* that raises)
FailedCallKeepsStepSizesOnBadSigma ==
    [][(op' = "set_step_sizes" /\ exc' # "None") =>
           /\ alg'.tau = alg.tau
           /\ BadSigma(arg'.sigma, alg.ndual_subsets) => alg'.sigma = alg.sigma]_vars

====
